---- MODULE Spec2Model ----
(***************************************************************************)
(* Model of src/utils/screenshotsaver.cpp: saving a capture to a file,     *)
(* the "save as" dialog, and the three clipboard back ends (Qt clipboard,  *)
(* KSystemClipboard, the wl-copy helper fed through a pipe).               *)
(*                                                                         *)
(* Strings are sequences of tokens (a path is <<"/", "pics", "/", ...>>),  *)
(* an image is a sequence of pixels, an encoded image is a header token    *)
(* naming the format followed by the pixels.                               *)
(***************************************************************************)
EXTENDS Integers, Sequences, FiniteSets, TLC

VARIABLES
    build,      \* compile-time switches: [clip, unix]
    savePath,   \* ConfigHandler().savePath(), the one setting the file writes
    clipboard,  \* content of the system clipboard: [kind, data]
    call,       \* the invocation in progress or just finished: [op, capture, in, clip0, path0]
    gui,        \* saveToFilesystemGUI in progress: [pc, fixed, result, hist, ev, in, fresh]
    result,     \* its return value: "pending", "true", "false", "void", "none"
    pc,         \* per process: position in the code
    fds,        \* per process: descriptor table, fd -> [obj, cx]
    pipefds,    \* per process: the local array pipefds
    pid,        \* per process: the local pid
    woff,       \* per process: bytes of array already accepted by write()
    pipe,       \* bytes in the kernel pipe buffer
    recv,       \* bytes the helper has read from its standard input
    trace       \* per process: what it did during this invocation, in order

vars == <<build, savePath, clipboard, call, gui, result, pc, fds, pipefds, pid,
          woff, pipe, recv, trace>>

----------------------------------------------------------------------------
(* Bounds of the model *)

\* a capture has 1..MaxPix pixels
MaxPix == 1
\* capacity of the kernel pipe buffer, in bytes
PipeCap == 1
\* descriptors are 0..MaxFd
MaxFd == 4

Procs == {"parent", "child"}
Fds == 0..MaxFd

Captures == { [i \in 1..n |-> "px"] : n \in 1..MaxPix }

\* values of saveAsFileExtension
Exts == {"", "jpg"}
\* what can happen to QFile::open followed by QPixmap::save
Outcomes == {"ok", "openfail", "writefail", "encodefail"}

PicsDir == <<"/", "pics">>
TmpDir == <<"/", "tmp">>
\* initial values of the savePath setting
SaveDirs == { <<>>, PicsDir }
\* what the user can pick in the save dialog (the empty string: cancelled)
DialogChoices == { <<>>, <<"/", "pics", "/", "a.png">>, <<"/", "a.png">> }

----------------------------------------------------------------------------
(* Events of a trace *)

Log(level, msg, npath) == [k |-> "log", n |-> level, a |-> msg, r |-> npath]
FileEv(n, path, ok) == [k |-> "file", n |-> n, a |-> path, r |-> ok]
ClipEv(n, content) == [k |-> "clip", n |-> n, a |-> content, r |-> TRUE]
Sys(n, args, r) == [k |-> "sys", n |-> n, a |-> args, r |-> r]
Fn(n, arg) == [k |-> "call", n |-> n, a |-> arg, r |-> TRUE]
Ui(n, arg) == [k |-> "ui", n |-> n, a |-> arg, r |-> TRUE]

Clip(kind, data) == [kind |-> kind, data |-> data]
Unchanged == Clip("unchanged", <<>>)

\* the positions of tr whose event satisfies Test
Where(tr, Test(_)) == { i \in 1..Len(tr) : Test(tr[i]) }

----------------------------------------------------------------------------
(* Strings *)

\* QString::lastIndexOf: 0-based position of the last occurrence, -1 if none
LastIndexOf(s, tok) ==
    LET hits == { i \in 1..Len(s) : s[i] = tok }
    IN IF hits = {} THEN -1 ELSE (CHOOSE i \in hits : \A j \in hits : j <= i) - 1

\* QString::left: the first n tokens; the whole string when n is out of range
Left(s, n) == IF n < 0 \/ n >= Len(s) THEN s ELSE SubSeq(s, 1, n)

\* QString::toUpper on the image types in use
ToUpper(t) == IF t = "png" THEN "PNG" ELSE IF t = "jpeg" THEN "JPEG" ELSE t

\* FileNameHandler::properScreenshotPath: a file name in the directory, with
\* the configured suffix (.png when none is configured)
properScreenshotPath(path, format) ==
    (IF path = <<>> THEN TmpDir ELSE path)
        \o <<"/", "shot", ".", IF format = "" THEN "png" ELSE format>>

----------------------------------------------------------------------------
(* Image encoding *)

\* QImageWriter(&buffer, format).write(image): the array stays empty when the
\* writer cannot produce the format
Encode(capture, format, writerOk) ==
    IF writerOk THEN <<format>> \o capture ELSE <<>>

\* QPixmap::loadFromData(data, len, format)
LoadFromData(array, format, readerOk) ==
    /\ readerOk
    /\ Len(array) > 0
    /\ array[1] = format

\* the pixmap loadFromData built
Decode(array) == Tail(array)

----------------------------------------------------------------------------
(* saveToFilesystem, lines 37-67 *)

FileError(outcome) ==
    CASE outcome = "openfail" -> "OpenError"
      [] outcome = "writefail" -> "WriteError"
      [] OTHER -> "NoError"

\* capture.save(&file) after file.open(WriteOnly), whose result is ignored
SaveOkay(outcome) == outcome = "ok"

SaveToFilesystemLogAlwaysInfo(okay, saveMessage, completePath, outcome) ==
    <<Log("info", saveMessage \o <<"Capture saved as ">> \o completePath,
          completePath)>>

SaveToFilesystemLog(okay, saveMessage, completePath, outcome) ==
    IF okay
    THEN <<Log("info", saveMessage \o <<"Capture saved as ">> \o completePath,
               completePath)>>
    ELSE <<Log("error",
               saveMessage \o <<"Error trying to save as ">> \o completePath
                 \o (IF FileError(outcome) # "NoError"
                     THEN <<": ", FileError(outcome)>> ELSE <<>>),
               <<>>)>>

saveToFilesystem(capture, path, messagePrefix, ext, outcome) ==
    LET completePath == properScreenshotPath(path, ext)
        okay == SaveOkay(outcome)
        saveMessage == IF messagePrefix # <<>>
                       THEN messagePrefix \o <<" ">> ELSE messagePrefix
    IN [okay |-> okay,
        ev |-> <<Fn("saveToFilesystem", completePath),
                 FileEv("open", completePath, outcome # "openfail"),
                 FileEv("save", completePath, okay)>>
               \o SaveToFilesystemLog(okay, saveMessage, completePath, outcome)]

----------------------------------------------------------------------------
(* ShowSaveFileDialog, lines 69-100 *)

SupportedMimeTypes ==
    <<"image/png", "image/jpeg", "image/heif", "image/heic",
      "image/heic-sequence", "image/heif-sequence">>

NotHeifAlias(m) ==
    m # "image/heic" /\ m # "image/heic-sequence" /\ m # "image/heif-sequence"

MimeTypeFilters == SelectSeq(SupportedMimeTypes, NotHeifAlias)

DefaultSuffix(ext) == IF ext = "" THEN "png" ELSE ext

\* lines 71-94: the dialog as it is shown
ShowSaveFileDialogOpen(title, directory, ext) ==
    <<Ui("QFileDialog", <<title, directory, MimeTypeFilters, DefaultSuffix(ext)>>)>>

\* lines 95-99: what dialog.exec() gives once the user is done; choice is the
\* selected file, or <<>> for a rejected dialog
ShowSaveFileDialogResult(choice) == choice

----------------------------------------------------------------------------
(* saveToClipboardWlCopy, lines 110-114, and saveToClipboardMime, 141-175 *)

MimeName(imageType) == IF imageType = "png" THEN "image/png" ELSE "image/jpeg"

\* the type check that guards the helper: TRUE when the pipe is to be set up
WlCopyAlwaysSupported(imageType) == TRUE

WlCopySupported(imageType) == imageType = "png"

\* the entry of saveToClipboardWlCopy; go: the system calls follow
saveToClipboardWlCopyEntry(array, imageType) ==
    IF ~WlCopySupported(imageType)
    THEN [go |-> FALSE,
          ev |-> <<Fn("saveToClipboardWlCopy", imageType),
                   Log("error", <<"WL_COPY option only supports png">>, <<>>)>>]
    ELSE [go |-> TRUE, ev |-> <<Fn("saveToClipboardWlCopy", imageType)>>]

\* the isLoaded test of saveToClipboardMime
MimeLoadedIgnored(array, format, readerOk) == Len(array) > 0

MimeLoaded(array, format, readerOk) == LoadFromData(array, format, readerOk)

\* [ev, clip, go, array]: the events, the clipboard content set (Unchanged
\* when none), whether the wl-copy system calls follow, the encoded bytes
saveToClipboardMime(capture, imageType, writerOk, readerOk, clipBuild) ==
    LET format == ToUpper(imageType)
        array == Encode(capture, format, writerOk)
        isLoaded == MimeLoaded(array, format, readerOk)
        enter == <<Fn("saveToClipboardMime", imageType)>>
        wl == saveToClipboardWlCopyEntry(array, imageType)
        kde == Clip("x-kde-force-image-copy", Decode(array))
        qt == Clip(MimeName(imageType), array)
    IN  IF ~isLoaded
        THEN [ev |-> enter \o <<Log("error",
                                   <<"Error while saving to clipboard">>, <<>>)>>,
              clip |-> Unchanged, go |-> FALSE, array |-> array]
        ELSE CASE clipBuild = "WL_COPY" ->
                   [ev |-> enter \o wl.ev, clip |-> Unchanged,
                    go |-> wl.go, array |-> array]
               [] clipBuild = "WAYLAND_CLIPBOARD" ->
                   [ev |-> enter \o <<Log("info", <<"wl_wayland_copy">>, <<>>),
                                     ClipEv("KSystemClipboard::setMimeData", kde)>>,
                    clip |-> kde, go |-> FALSE, array |-> array]
               [] OTHER ->
                   [ev |-> enter \o <<ClipEv("QClipboard::setMimeData", qt)>>,
                    clip |-> qt, go |-> FALSE, array |-> array]

----------------------------------------------------------------------------
(* saveToClipboard, lines 179-206 *)

SavedToClipboardMsg == <<"Capture saved to clipboard.">>

\* the condition under which the capture is also written to a file
SaveAlso(saveAfterCopy, sp) == saveAfterCopy /\ sp # <<>>

\* which copy is made: "jpeg", "png" (both through saveToClipboardMime) or
\* "pixmap" (QClipboard::setPixmap)
CopyKindNoWayland(useJpg, unix, wayland) == IF useJpg THEN "jpeg" ELSE "pixmap"

CopyKind(useJpg, unix, wayland) ==
    IF useJpg THEN "jpeg"
    ELSE IF unix /\ wayland THEN "png"
    ELSE "pixmap"

\* the order of the two halves of saveToClipboard
CopyThenNotify(notify, copy) == copy \o notify

NotifyThenCopy(notify, copy) == notify \o copy

\* in: [saveAfterCopy, useJpg, wayland, ext, outcome, writerOk, readerOk];
\* wayland: what DesktopInfo().waylandDetected() returns, FALSE in a build
\* that does not ask
saveToClipboard(capture, sp, in, b) ==
    LET notify ==
            IF SaveAlso(in.saveAfterCopy, sp)
            THEN saveToFilesystem(capture, sp, SavedToClipboardMsg,
                                  in.ext, in.outcome).ev
            ELSE <<Log("log", SavedToClipboardMsg, <<>>)>>
        kind == CopyKind(in.useJpg, b.unix, in.wayland)
        mime == saveToClipboardMime(capture, kind, in.writerOk, in.readerOk,
                                    b.clip)
        pixmap == Clip("pixmap", capture)
    IN  IF kind = "pixmap"
        THEN [ev |-> NotifyThenCopy(<<Fn("saveToClipboard", <<>>)>> \o notify,
                                    <<ClipEv("QClipboard::setPixmap", pixmap)>>),
              clip |-> pixmap, go |-> FALSE, array |-> <<>>]
        ELSE [ev |-> NotifyThenCopy(<<Fn("saveToClipboard", <<>>)>> \o notify,
                                    mime.ev),
              clip |-> mime.clip, go |-> mime.go, array |-> mime.array]

----------------------------------------------------------------------------
(* saveToFilesystemGUI, lines 208-271 *)

PicturesLocation == <<"/", "home", "/", "Pictures">>

\* the condition under which the setting savePath is rewritten
SetSavePathAlways(okay) == TRUE

SetSavePathWhen(okay) == okay

\* lines 210-233, up to dialog.exec(); in: [ext, usable, fixed]; usable: the
\* configured directory exists and is writable
saveToFilesystemGUIBefore(sp, in) ==
    LET defaultSavePath == IF sp = <<>> \/ ~in.usable THEN PicturesLocation ELSE sp
        proposed == properScreenshotPath(defaultSavePath, in.ext)
    IN [path |-> proposed,
        ev |-> <<Fn("saveToFilesystemGUI", <<>>)>>
               \o (IF ~in.fixed
                   THEN ShowSaveFileDialogOpen(<<"Save screenshot">>, proposed,
                                               in.ext)
                   ELSE <<>>)]

\* lines 234-267, from the path being known up to the return or to
\* saveErrBox.exec(); sp is the setting at that time; in: [outcome, copyPath]
saveToFilesystemGUIAfter(path, sp, in) ==
    LET okay == SaveOkay(in.outcome)
        pathNoFile == Left(path, LastIndexOf(path, "/"))
        written == <<FileEv("open", path, in.outcome # "openfail"),
                     FileEv("save", path, okay)>>
        msg == <<"Error trying to save as ">> \o path
               \o (IF FileError(in.outcome) # "NoError"
                   THEN <<": ", FileError(in.outcome)>> ELSE <<>>)
    IN  IF path = <<>>
        THEN [okay |-> FALSE, box |-> FALSE, ev |-> <<>>, savePath |-> sp,
              clip |-> Unchanged]
        ELSE [okay |-> okay,
              box |-> ~okay,
              ev |-> written
                  \o (IF okay
                      THEN <<Log("log", <<"Capture saved as ">> \o path, path)>>
                           \o (IF in.copyPath
                               THEN <<ClipEv("FlameshotDaemon::copyToClipboard",
                                             Clip("text", path))>>
                               ELSE <<>>)
                      ELSE <<Ui("QMessageBox", msg)>>),
              savePath |-> IF SetSavePathWhen(okay) THEN pathNoFile ELSE sp,
              clip |-> IF okay /\ in.copyPath THEN Clip("text", path)
                       ELSE Unchanged]

----------------------------------------------------------------------------
(* The kernel: descriptor tables, the pipe, processes *)

STDIN_FILENO == 0
\* the pid fork returns to the parent
ChildPid == 7

Closed == [obj |-> "none", cx |-> FALSE]
\* a process started with standard input, output and error open
StdTable == [f \in Fds |-> IF f <= 2 THEN [obj |-> "std", cx |-> FALSE] ELSE Closed]
NoTable == [f \in Fds |-> Closed]

Free(tab) == { f \in Fds : tab[f].obj = "none" }
Lowest(S) == CHOOSE f \in S : \A g \in S : f <= g

\* pipe2(pipefds, O_CLOEXEC): the two lowest free descriptors
Pipe2Read(tab) == Lowest(Free(tab))
Pipe2Write(tab) == Lowest(Free(tab) \ {Pipe2Read(tab)})
Pipe2Table(tab) ==
    [tab EXCEPT ![Pipe2Read(tab)] = [obj |-> "pr", cx |-> TRUE],
                ![Pipe2Write(tab)] = [obj |-> "pw", cx |-> TRUE]]

\* close(fd)
CloseOk(tab, fd) == tab[fd].obj # "none"
CloseTable(tab, fd) == [tab EXCEPT ![fd] = Closed]

\* dup2(old, new): nothing happens when old = new; the copy is not close-on-exec
Dup2Ok(tab, old) == tab[old].obj # "none"
Dup2Table(tab, old, new) ==
    IF Dup2Ok(tab, old) /\ old # new
    THEN [tab EXCEPT ![new] = [obj |-> tab[old].obj, cx |-> FALSE]]
    ELSE tab

\* a successful exec closes the close-on-exec descriptors
ExecTable(tab) == [f \in Fds |-> IF tab[f].cx THEN Closed ELSE tab[f]]

Holds(obj) == \E q \in Procs, f \in Fds : fds[q][f].obj = obj

----------------------------------------------------------------------------
(* saveToClipboardWlCopy, lines 102-139: the code around the system calls *)

\* logErr(name), lines 102-108
\* what errbuf holds after strerror_r: g++ defines _GNU_SOURCE, so this is
\* the GNU strerror_r, which returns its text and leaves the zeroed buffer
\* as it is; the code logs the buffer, not the returned text
ErrBuf == ""

\* line 107: two insertions into one AbstractLogger::error() object, the
\* prefix and then the buffer; a log entry of the trace is one insertion
logErr(name) == <<Log("error", <<"wl_copy: ", name, ": ">>, <<>>),
                  Log("error", <<ErrBuf>>, <<>>)>>

\* line 116: std::array<int, 2> pipefds {}
PipefdsInit == <<STDIN_FILENO, STDIN_FILENO>>

\* lines 117-119: what pipefds holds after pipe2
PipefdsAfterPipe2(ok, tab) ==
    IF ok THEN <<Pipe2Read(tab), Pipe2Write(tab)>> ELSE PipefdsInit

\* lines 122-135: where a process continues after fork returned pidv
AfterFork(pidv) == IF pidv = 0 THEN "L127" ELSE "L135"

\* lines 132-135: where the child continues after execlp
AfterExec(ok) == IF ok THEN "helper" ELSE "L135"

\* line 139: where a process is once saveToClipboardWlCopy returned
AfterReturn(p) == IF p = "parent" THEN "idle" ELSE "app"

----------------------------------------------------------------------------
(* State *)

NoCall == [op |-> "none", capture |-> <<>>, in |-> <<>>,
           clip0 |-> Unchanged, path0 |-> <<>>, array |-> <<>>]

Begin(op, capture, in, array) ==
    [op |-> op, capture |-> capture, in |-> in,
     clip0 |-> clipboard, path0 |-> savePath, array |-> array]

Bool(b) == IF b THEN "true" ELSE "false"

NoGui == [pc |-> "none", fixed |-> FALSE, result |-> "none", hist |-> <<>>,
          ev |-> <<>>, in |-> <<>>, fresh |-> FALSE]

Builds ==
    { b \in [clip : {"WL_COPY", "WAYLAND_CLIPBOARD", "QT"}, unix : BOOLEAN] :
        b.clip # "QT" => b.unix }

Init ==
    /\ build \in Builds
    /\ savePath \in SaveDirs
    /\ clipboard = Clip("empty", <<>>)
    /\ call = NoCall
    /\ gui = NoGui
    /\ result = "none"
    /\ pc = [parent |-> "idle", child |-> "none"]
    /\ fds = [parent |-> StdTable, child |-> NoTable]
    /\ pipefds = [p \in Procs |-> PipefdsInit]
    /\ pid = [p \in Procs |-> 0]
    /\ woff = [p \in Procs |-> 0]
    /\ pipe = <<>>
    /\ recv = <<>>
    /\ trace = [p \in Procs |-> <<>>]

\* the application is in an event loop (the main one, or the one a dialog
\* runs): no callback of this file is executing
Idle == pc["parent"] = "idle" /\ result = "none" /\ ~gui.fresh

wlVars == <<pc, fds, pipefds, pid, woff, pipe, recv>>

SetClipboard(c) == clipboard' = IF c = Unchanged THEN clipboard ELSE c

----------------------------------------------------------------------------
(* The entry points *)

SaveToFilesystemCall ==
    /\ Idle
    /\ \E capture \in Captures, path \in SaveDirs, ext \in Exts,
          prefix \in {<<>>, SavedToClipboardMsg}, outcome \in Outcomes :
        LET in == [path |-> path, prefix |-> prefix, ext |-> ext,
                   outcome |-> outcome]
            r == saveToFilesystem(capture, path, prefix, ext, outcome)
        IN /\ call' = Begin("saveToFilesystem", capture, in, <<>>)
           /\ result' = Bool(r.okay)
           /\ trace' = [trace EXCEPT !["parent"] = r.ev]
    /\ UNCHANGED <<build, gui, savePath, clipboard, wlVars>>

\* what a trace entry is called in gui.hist
HistName(e) ==
    IF e.k = "file" /\ e.n = "save" /\ ~e.r THEN "save failed" ELSE e.n
HistNames(ev) == [i \in 1..Len(ev) |-> HistName(ev[i])]

\* lines 234-270 for the path now known; before: the events of this step so far
GUIWrite(fixed, before, path, in) ==
    LET a == saveToFilesystemGUIAfter(path, savePath, in)
        ev == before \o a.ev
    IN /\ gui' = [pc |-> IF a.box THEN "L267" ELSE "done",
                  fixed |-> fixed,
                  result |-> IF a.box THEN "pending" ELSE Bool(a.okay),
                  hist |-> gui.hist \o HistNames(ev),
                  ev |-> ev, in |-> in, fresh |-> TRUE]
       /\ savePath' = a.savePath
       /\ SetClipboard(a.clip)

\* saveToFilesystemGUI is called: lines 210-233 and, with a fixed save path,
\* on to the return or the error box; otherwise the dialog opens and runs an
\* event loop of its own
SaveToFilesystemGUICall ==
    /\ Idle
    /\ gui.pc = "none"
    /\ \E ext \in Exts, usable \in BOOLEAN, fixed \in BOOLEAN,
          outcome \in Outcomes, copyPath \in BOOLEAN :
        LET b == saveToFilesystemGUIBefore(
                     savePath, [ext |-> ext, usable |-> usable, fixed |-> fixed])
        IN IF fixed
           THEN GUIWrite(TRUE, b.ev, b.path,
                         [outcome |-> outcome, copyPath |-> copyPath])
           ELSE /\ gui' = [pc |-> "L95", fixed |-> FALSE, result |-> "pending",
                           hist |-> HistNames(b.ev), ev |-> b.ev,
                           in |-> <<>>, fresh |-> TRUE]
                /\ UNCHANGED <<savePath, clipboard>>
    /\ UNCHANGED <<build, call, result, trace, wlVars>>

\* line 95 onwards: dialog.exec() returns
GUIDialogClosed ==
    /\ Idle
    /\ gui.pc = "L95"
    /\ \E choice \in DialogChoices, outcome \in Outcomes, copyPath \in BOOLEAN :
        GUIWrite(FALSE, <<>>, ShowSaveFileDialogResult(choice),
                 [choice |-> choice, outcome |-> outcome, copyPath |-> copyPath])
    /\ UNCHANGED <<build, call, result, trace, wlVars>>

\* lines 267-270: saveErrBox.exec() returns and okay, false, is returned
GUIBoxClosed ==
    /\ Idle
    /\ gui.pc = "L267"
    /\ gui' = [gui EXCEPT !.pc = "done", !.result = "false", !.fresh = TRUE]
    /\ UNCHANGED <<build, savePath, clipboard, call, result, trace, wlVars>>

\* the record of the last step of saveToFilesystemGUI is dropped, and with it
\* the record of the call once it returned
GUIObserved ==
    /\ gui.fresh
    /\ gui' = IF gui.pc = "done" THEN NoGui
              ELSE [gui EXCEPT !.ev = <<>>, !.in = <<>>, !.fresh = FALSE]
    /\ UNCHANGED <<build, savePath, clipboard, call, result, trace, wlVars>>

\* the savePath setting is changed outside this file (the configuration
\* window, the configuration file)
SavePathSettingChanged ==
    /\ Idle
    /\ \E d \in SaveDirs : d # savePath /\ savePath' = d
    /\ UNCHANGED <<build, gui, clipboard, call, result, trace, wlVars>>

\* r: what the code did up to the first system call of the helper path
Enter(op, capture, in, r) ==
    /\ call' = Begin(op, capture, in, r.array)
    /\ trace' = [trace EXCEPT !["parent"] = r.ev]
    /\ SetClipboard(r.clip)
    /\ result' = IF r.go THEN "pending" ELSE "void"
    /\ pc' = IF r.go THEN [pc EXCEPT !["parent"] = "L117"] ELSE pc
    /\ UNCHANGED <<build, gui, savePath, fds, pipefds, pid, woff, pipe, recv>>

SaveToClipboardMimeCall ==
    /\ Idle
    /\ \E capture \in Captures, imageType \in {"png", "jpeg"},
          writerOk \in BOOLEAN, readerOk \in BOOLEAN :
        LET in == [imageType |-> imageType, writerOk |-> writerOk,
                   readerOk |-> readerOk]
        IN Enter("saveToClipboardMime", capture, in,
                 saveToClipboardMime(capture, imageType, writerOk, readerOk,
                                     build.clip))

\* the settings and outcomes are drawn where the code reads them: the file
\* is written only with SaveAlso, Wayland is asked for only without jpeg, the
\* image is encoded only on the way through saveToClipboardMime
SaveToClipboardCall ==
    /\ Idle
    /\ \E capture \in Captures, saveAfterCopy \in BOOLEAN, useJpg \in BOOLEAN :
       \E wayland \in (IF build.unix /\ ~useJpg THEN BOOLEAN ELSE {FALSE}),
          ext \in (IF SaveAlso(saveAfterCopy, savePath) THEN Exts ELSE {""}),
          outcome \in (IF SaveAlso(saveAfterCopy, savePath) THEN Outcomes
                       ELSE {"ok"}) :
       \E writerOk \in (IF useJpg \/ wayland THEN BOOLEAN ELSE {TRUE}),
          readerOk \in (IF useJpg \/ wayland THEN BOOLEAN ELSE {TRUE}) :
        LET in == [saveAfterCopy |-> saveAfterCopy, useJpg |-> useJpg,
                   wayland |-> wayland, ext |-> ext, outcome |-> outcome,
                   writerOk |-> writerOk, readerOk |-> readerOk]
        IN Enter("saveToClipboard", capture, in,
                 saveToClipboard(capture, savePath, in, build))

\* the caller is back in the event loop; the record of the invocation is dropped
ReturnToEventLoop ==
    /\ pc["parent"] = "idle"
    /\ result \notin {"none", "pending"}
    /\ call' = NoCall
    /\ result' = "none"
    /\ trace' = [p \in Procs |-> <<>>]
    /\ pc' = [pc EXCEPT !["child"] = "none"]
    /\ fds' = [fds EXCEPT !["child"] = NoTable]
    /\ pipefds' = [p \in Procs |-> PipefdsInit]
    /\ pid' = [p \in Procs |-> 0]
    /\ woff' = [p \in Procs |-> 0]
    /\ pipe' = <<>>
    /\ recv' = <<>>
    /\ UNCHANGED <<build, gui, savePath, clipboard>>

----------------------------------------------------------------------------
(* saveToClipboardWlCopy, lines 116-139, one system call per step *)

Emit(p, ev) == trace' = [trace EXCEPT ![p] = @ \o ev]
Goto(p, where) == pc' = [pc EXCEPT ![p] = where]

\* lines 117-119
Pipe2Step ==
    /\ pc["parent"] = "L117"
    /\ \E ok \in {b \in BOOLEAN : b => Cardinality(Free(fds["parent"])) >= 2} :
        LET tab == fds["parent"]
            got == PipefdsAfterPipe2(ok, tab)
        IN /\ fds' = [fds EXCEPT !["parent"] = IF ok THEN Pipe2Table(tab) ELSE tab]
           /\ pipefds' = [pipefds EXCEPT !["parent"] = got]
           /\ Emit("parent",
                   IF ok THEN <<Sys("pipe2", got, "ok")>>
                   ELSE <<Sys("pipe2", got, "EMFILE")>> \o logErr("pipe2"))
    /\ Goto("parent", "L121")
    /\ UNCHANGED <<build, gui, savePath, clipboard, call, result, pid, woff, pipe, recv>>

\* lines 121-125: the child is a copy of the parent
ForkStep ==
    /\ pc["parent"] = "L121"
    /\ \E ok \in BOOLEAN :
        IF ok
        THEN /\ pid' = [parent |-> ChildPid, child |-> 0]
             /\ fds' = [fds EXCEPT !["child"] = fds["parent"]]
             /\ pipefds' = [pipefds EXCEPT !["child"] = pipefds["parent"]]
             /\ pc' = [parent |-> AfterFork(ChildPid), child |-> AfterFork(0)]
             /\ trace' = [parent |-> trace["parent"] \o <<Sys("fork", <<ChildPid>>, "ok")>>,
                          child |-> <<Sys("fork", <<0>>, "ok")>>]
        ELSE /\ pid' = [pid EXCEPT !["parent"] = -1]
             /\ Goto("parent", AfterFork(-1))
             /\ Emit("parent", <<Sys("fork", <<-1>>, "EAGAIN")>> \o logErr("fork"))
             /\ UNCHANGED <<fds, pipefds>>
    /\ UNCHANGED <<build, gui, savePath, clipboard, call, result, woff, pipe, recv>>

\* close(fd) by process p, which continues at next
CloseStep(p, fd, next) ==
    /\ fds' = [fds EXCEPT ![p] = CloseTable(@, fd)]
    /\ Emit(p, <<Sys("close", <<fd>>, IF CloseOk(fds[p], fd) THEN "ok" ELSE "EBADF")>>)
    /\ Goto(p, next)
    /\ UNCHANGED <<build, gui, savePath, clipboard, call, result, pipefds, pid, woff,
                   pipe, recv>>

\* line 127
ChildCloseWrite ==
    /\ pc["child"] = "L127"
    /\ CloseStep("child", pipefds["child"][2], "L128")

\* lines 128-130
ChildDup2 ==
    /\ pc["child"] = "L128"
    /\ LET old == pipefds["child"][1]
           ok == Dup2Ok(fds["child"], old)
       IN /\ fds' = [fds EXCEPT !["child"] = Dup2Table(@, old, STDIN_FILENO)]
          /\ Emit("child",
                  IF ok THEN <<Sys("dup2", <<old, STDIN_FILENO>>, "ok")>>
                  ELSE <<Sys("dup2", <<old, STDIN_FILENO>>, "EBADF")>>
                       \o logErr("dup2"))
    /\ Goto("child", "L131")
    /\ UNCHANGED <<build, gui, savePath, clipboard, call, result, pipefds, pid, woff,
                   pipe, recv>>

\* line 131
ChildCloseRead ==
    /\ pc["child"] = "L131"
    /\ CloseStep("child", pipefds["child"][1], "L132")

\* line 132: execlp returns only when it failed
ChildExec ==
    /\ pc["child"] = "L132"
    /\ \E ok \in BOOLEAN :
        /\ fds' = [fds EXCEPT !["child"] = IF ok THEN ExecTable(@) ELSE @]
        /\ Emit("child", <<Sys("execlp", <<"wl-copy", "-t", "image/png">>,
                               IF ok THEN "ok" ELSE "ENOENT")>>)
        /\ Goto("child", AfterExec(ok))
    /\ UNCHANGED <<build, gui, savePath, clipboard, call, result, pipefds, pid, woff,
                   pipe, recv>>

\* line 135, by whichever process gets there
TailCloseRead(p) ==
    /\ pc[p] = "L135"
    /\ CloseStep(p, pipefds[p][1], "L136")

\* a process ends: its descriptors are closed
Exit(p, how) ==
    /\ pc' = [pc EXCEPT ![p] = how]
    /\ fds' = [fds EXCEPT ![p] = NoTable]

\* line 136: write(pipefds[1], array.data(), array.size()), a blocking write
\* that the kernel serves a byte at a time as the pipe has room
TailWrite(p) ==
    /\ pc[p] = "L136"
    /\ LET fd == pipefds[p][2]
           obj == fds[p][fd].obj
           first == woff[p] = 0
           note(r) == IF first THEN <<Sys("write", <<fd>>, r)>> ELSE <<>>
       IN CASE obj = "none" ->
                /\ Emit(p, note("EBADF"))
                /\ Goto(p, "L137")
                /\ UNCHANGED <<fds, woff, pipe>>
            [] obj = "std" ->
                /\ Emit(p, note("ok"))
                /\ Goto(p, "L137")
                /\ UNCHANGED <<fds, woff, pipe>>
            [] obj = "pr" ->
                /\ Emit(p, note("EBADF"))
                /\ Goto(p, "L137")
                /\ UNCHANGED <<fds, woff, pipe>>
            [] obj = "pw" /\ ~Holds("pr") ->
                \* no reader: SIGPIPE ends the process unless it is ignored
                /\ Emit(p, note("EPIPE"))
                /\ \E ignored \in BOOLEAN :
                     IF ignored THEN Goto(p, "L137") /\ UNCHANGED fds
                     ELSE Exit(p, "killed")
                /\ UNCHANGED <<woff, pipe>>
            [] obj = "pw" /\ Holds("pr") ->
                /\ Len(pipe) < PipeCap
                /\ pipe' = Append(pipe, call.array[woff[p] + 1])
                /\ woff' = [woff EXCEPT ![p] = @ + 1]
                /\ Emit(p, note("ok"))
                /\ Goto(p, IF woff[p] + 1 = Len(call.array) THEN "L137" ELSE "L136")
                /\ UNCHANGED fds
    /\ UNCHANGED <<build, gui, savePath, clipboard, call, result, pipefds, pid, recv>>

\* line 137
TailCloseWrite(p) ==
    /\ pc[p] = "L137"
    /\ CloseStep(p, pipefds[p][2], "L138")

\* lines 138-139: waitpid(pid, nullptr, 0) and the return. Waiting for the
\* child blocks until it ended; any other pid names no child of the caller.
TailWaitpid(p) ==
    /\ pc[p] = "L138"
    /\ LET mine == p = "parent" /\ pid[p] = ChildPid
       IN /\ mine => pc["child"] = "exited"
          /\ pc' = [q \in Procs |->
                      IF q = p THEN AfterReturn(p)
                      ELSE IF mine THEN "reaped" ELSE pc[q]]
          /\ Emit(p, <<Sys("waitpid", <<pid[p]>>, IF mine THEN "ok" ELSE "ECHILD")>>)
    /\ result' = IF p = "parent" THEN "void" ELSE result
    /\ UNCHANGED <<build, gui, savePath, clipboard, call, fds, pipefds, pid, woff,
                   pipe, recv>>

----------------------------------------------------------------------------
(* The environment of the child: wl-copy, and the copy of the application *)

\* wl-copy reads its standard input
HelperRead ==
    /\ pc["child"] = "helper"
    /\ fds["child"][STDIN_FILENO].obj = "pr"
    /\ pipe # <<>>
    /\ recv' = Append(recv, Head(pipe))
    /\ pipe' = Tail(pipe)
    /\ UNCHANGED <<build, gui, savePath, clipboard, call, result, pc, fds, pipefds,
                   pid, woff, trace>>

\* at end-of-file wl-copy offers what it read as image/png and ends
HelperFinish ==
    /\ pc["child"] = "helper"
    /\ fds["child"][STDIN_FILENO].obj = "pr"
    /\ pipe = <<>>
    /\ ~Holds("pw")
    /\ clipboard' = Clip("image/png", recv)
    /\ Emit("child", <<ClipEv("wl-copy", Clip("image/png", recv))>>)
    /\ Exit("child", "exited")
    /\ UNCHANGED <<build, gui, savePath, call, result, pipefds, pid, woff, pipe, recv>>

\* without the pipe on its standard input wl-copy gets nothing of the image:
\* it ends, having offered an empty image or nothing
HelperNoInput ==
    /\ pc["child"] = "helper"
    /\ fds["child"][STDIN_FILENO].obj # "pr"
    /\ \E offers \in BOOLEAN :
        /\ clipboard' = IF offers THEN Clip("image/png", <<>>) ELSE clipboard
        /\ Emit("child", IF offers
                         THEN <<ClipEv("wl-copy", Clip("image/png", <<>>))>>
                         ELSE <<>>)
    /\ Exit("child", "exited")
    /\ UNCHANGED <<build, gui, savePath, call, result, pipefds, pid, woff, pipe, recv>>

\* the child that returned into the application ends at some point
ChildAppExit ==
    /\ pc["child"] = "app"
    /\ Exit("child", "exited")
    /\ UNCHANGED <<build, gui, savePath, clipboard, call, result, pipefds, pid, woff,
                   pipe, recv, trace>>

----------------------------------------------------------------------------

Next ==
    \/ SaveToFilesystemCall
    \/ SaveToFilesystemGUICall
    \/ GUIDialogClosed
    \/ GUIBoxClosed
    \/ GUIObserved
    \/ SavePathSettingChanged
    \/ SaveToClipboardMimeCall
    \/ SaveToClipboardCall
    \/ ReturnToEventLoop
    \/ Pipe2Step
    \/ ForkStep
    \/ ChildCloseWrite
    \/ ChildDup2
    \/ ChildCloseRead
    \/ ChildExec
    \/ \E p \in Procs : TailCloseRead(p)
    \/ \E p \in Procs : TailWrite(p)
    \/ \E p \in Procs : TailCloseWrite(p)
    \/ \E p \in Procs : TailWaitpid(p)
    \/ HelperRead
    \/ HelperFinish
    \/ HelperNoInput
    \/ ChildAppExit

Spec == Init /\ [][Next]_vars

----------------------------------------------------------------------------
(* Reading a trace *)

Parent == trace["parent"]
Child == trace["child"]
Both == Parent \o Child

Finished(op) == call.op = op /\ result \notin {"none", "pending"}

IsLog(e, level) == e.k = "log" /\ e.n = level
IsSys(e, name) == e.k = "sys" /\ e.n = name
IsCall(e, name) == e.k = "call" /\ e.n = name
IsUi(e, name) == e.k = "ui" /\ e.n = name
IsMsg(e, level, text) == IsLog(e, level) /\ e.a = <<text>>

Logs(tr, level) == Where(tr, LAMBDA e : IsLog(e, level))
Calls(tr, name) == Where(tr, LAMBDA e : IsCall(e, name))
ClipWrites(tr) == Where(tr, LAMBDA e : e.k = "clip")
SysCalls(tr) == Where(tr, LAMBDA e : e.k = "sys")
FileOps(tr) == Where(tr, LAMBDA e : e.k = "file")

\* the user notification of saveToClipboard: either log entry starts with
\* "Capture saved to clipboard."
Notification(e) == e.k = "log" /\ e.a[1] = SavedToClipboardMsg[1]

----------------------------------------------------------------------------
(* C1 *)

\* the complete path of the saveToFilesystem call the trace records
CompletePath == Parent[CHOOSE i \in Calls(Parent, "saveToFilesystem") : TRUE].a

\* the log entries of saveToFilesystem: its two messages
SaveLogs(level) ==
    Where(Parent, LAMBDA e :
        /\ IsLog(e, level)
        /\ \E i \in 1..Len(e.a) :
              e.a[i] \in {"Capture saved as ", "Error trying to save as "})

\* C1: saveToFilesystem returns true exactly when the write to the complete
\* path succeeded; a failed write (a failed open included) gives exactly one
\* error entry with an empty notification path, no info entry, and false; a
\* successful write gives exactly one info entry whose notification path is
\* the complete path, and no error entry.
C1_SaveToFilesystemContract ==
    Calls(Parent, "saveToFilesystem") # {} =>
        LET succeeded == call.in.outcome = "ok"
            info == SaveLogs("info")
            error == SaveLogs("error")
        IN /\ Finished("saveToFilesystem") =>
                /\ result = Bool(succeeded)
                /\ Cardinality(Logs(Parent, "info")) = Cardinality(info)
                /\ Cardinality(Logs(Parent, "error")) = Cardinality(error)
           /\ succeeded =>
                /\ Cardinality(info) = 1
                /\ \A i \in info : Parent[i].r = CompletePath
                /\ error = {}
           /\ ~succeeded =>
                /\ Cardinality(error) = 1
                /\ \A i \in error : Parent[i].r = <<>>
                /\ info = {}

C1_Witness ==
    /\ Finished("saveToFilesystem")
    /\ call.in.outcome = "openfail"
    /\ result = "false"
    /\ Logs(Parent, "error") # {}

----------------------------------------------------------------------------
(* C2 *)

SysNames(tr) == [i \in 1..Len(SelectSeq(tr, LAMBDA e : e.k = "sys")) |->
                    SelectSeq(tr, LAMBDA e : e.k = "sys")[i].n]

IsPrefix(s, t) == Len(s) <= Len(t) /\ s = SubSeq(t, 1, Len(s))

FixedSequence(p) ==
    IF p = "parent"
    THEN <<"pipe2", "fork", "close", "write", "close", "waitpid">>
    ELSE <<"fork", "close", "dup2", "close", "execlp">>

Failed(tr) ==
    Where(tr, LAMBDA e : e.k = "sys" /\ e.n \in {"pipe2", "fork", "dup2"}
                         /\ e.r # "ok")

WlCopyErrors(tr) ==
    Where(tr, LAMBDA e : IsLog(e, "error") /\ e.a[1] = "wl_copy: ")

\* C2: with image type png each process issues the system calls as one fixed
\* sequence (parent: pipe2, fork, close, write, close, waitpid; child: close,
\* dup2, close, exec), each at most once, and every failure of pipe2, fork or
\* dup2 is followed at once by exactly one logErr of that call (its prefix
\* and its buffer, written to one error logger) and the sequence goes on.
C2_FixedSequenceOnce ==
    \A p \in Procs :
        /\ IsPrefix(SysNames(trace[p]), FixedSequence(p))
        /\ Cardinality(Failed(trace[p])) = Cardinality(WlCopyErrors(trace[p]))
        /\ \A i \in Failed(trace[p]) :
              LET n == Len(logErr(trace[p][i].n))
              IN /\ i + n <= Len(trace[p])
                 /\ SubSeq(trace[p], i + 1, i + n) = logErr(trace[p][i].n)

----------------------------------------------------------------------------
(* C3 *)

\* C3: in saveToClipboard the user notification is emitted before anything
\* is written to the clipboard: before setPixmap and setMimeData, before the
\* first system call that feeds the wl-copy helper, before the helper runs.
C3_NotifyBeforeClipboard ==
    call.op = "saveToClipboard" =>
        /\ \A j \in ClipWrites(Parent) \cup SysCalls(Parent) :
              \E i \in 1..(j - 1) : Notification(Parent[i])
        /\ (Child # <<>> \/ clipboard # call.clip0) =>
              \E i \in 1..Len(Parent) : Notification(Parent[i])

C3_Witness ==
    /\ call.op = "saveToClipboard"
    /\ call.in.saveAfterCopy
    /\ ClipWrites(Child) # {}
    /\ clipboard = Clip("image/png", call.array)

----------------------------------------------------------------------------
(* C4 *)

WlCopyCalledWithout(tr) ==
    Where(tr, LAMBDA e : IsCall(e, "saveToClipboardWlCopy") /\ e.a # "png")

\* C4: called with an image type other than png, saveToClipboardWlCopy logs
\* one error and returns: no pipe, no fork, no exec, no byte written, the
\* clipboard as it was. A WL_COPY build takes this path when saveToClipboard
\* asks for jpeg and the encoded capture loads.
C4_WlCopyOnlyPng ==
    /\ WlCopyCalledWithout(Parent) # {} =>
          /\ Cardinality(Where(Parent, LAMBDA e :
                 IsMsg(e, "error", "WL_COPY option only supports png"))) = 1
          /\ SysCalls(Both) = {}
          /\ ClipWrites(Both) = {}
          /\ pc["child"] = "none"
          /\ pipe = <<>>
          /\ clipboard = call.clip0
          /\ result = "void"
    /\ ( /\ call.op = "saveToClipboard"
         /\ build.clip = "WL_COPY"
         /\ call.in.useJpg /\ call.in.writerOk /\ call.in.readerOk )
       => WlCopyCalledWithout(Parent) # {}

C4_Witness ==
    /\ call.op = "saveToClipboard"
    /\ call.in.useJpg
    /\ WlCopyCalledWithout(Parent) # {}
    /\ result = "void"

----------------------------------------------------------------------------
(* C5 *)

GuiHas(g, name) == \E i \in 1..Len(g.hist) : g.hist[i] = name
GuiCount(g, name) == Cardinality({ i \in 1..Len(g.hist) : g.hist[i] = name })

\* what a step of saveToFilesystemGUI may do, g being the call after the step
C5Step(g) ==
    LET written == \E i \in 1..Len(g.ev) :
                      g.ev[i].k = "file" /\ g.ev[i].n = "save" /\ g.ev[i].r
        copies == Where(g.ev, LAMBDA e : e.k = "clip")
        cancelled == gui.pc = "L95" /\ g.in.choice = <<>>
    IN /\ (savePath' # savePath \/ clipboard' # clipboard \/ copies # {})
            => written /\ g.result = "true"
       /\ (clipboard' # clipboard \/ copies # {}) => g.in.copyPath
       /\ (written /\ g.in.copyPath)
            => Cardinality(copies) = 1 /\ clipboard' = g.ev[CHOOSE i \in copies : TRUE].a
       /\ (g.pc = "done") =>
            /\ g.result = Bool(GuiHas(g, "save"))
            /\ GuiHas(g, "save") <=> written
            /\ cancelled =>
                 /\ g.result = "false"
                 /\ ~GuiHas(g, "open") /\ ~GuiHas(g, "save")
                 /\ ~GuiHas(g, "save failed") /\ ~GuiHas(g, "QMessageBox")
            /\ GuiHas(g, "save failed") =>
                 /\ g.result = "false"
                 /\ GuiCount(g, "QMessageBox") = 1
            /\ g.result = "true" => ~GuiHas(g, "QMessageBox")
       /\ GuiHas(g, "save failed") => savePath' = savePath /\ clipboard' = clipboard
       /\ GuiHas(g, "QFileDialog") <=> (g.pc # "none" /\ ~g.fixed)

\* C5: saveToFilesystemGUI rewrites the savePath setting and copies the path
\* to the clipboard only in the step in which the capture was written and it
\* returns true (the copy also needs copyPathAfterSave); a cancelled dialog
\* gives false with no file touched and no error box; a failed write gives
\* false and the error box, and no step of the call changes setting or
\* clipboard; the dialog is shown only when savePathFixed is off.
C5_SaveGUIEffects == [][gui' # gui => C5Step(gui')]_vars

C5_Witness ==
    /\ gui.pc = "done"
    /\ gui.result = "false"
    /\ GuiHas(gui, "QFileDialog")
    /\ GuiHas(gui, "save failed")
    /\ GuiHas(gui, "QMessageBox")

----------------------------------------------------------------------------
(* C6 *)

\* C6: saveToClipboard calls saveToFilesystem exactly when saveAfterCopy is
\* set and the configured save path is not empty, and then, whatever came of
\* that, makes exactly one clipboard copy: jpeg through saveToClipboardMime
\* if useJpgForClipboard, else png through saveToClipboardMime if Wayland is
\* detected, else setPixmap.
C6_SaveThenOneCopy ==
    call.op = "saveToClipboard" =>
        LET in == call.in
            saves == Calls(Parent, "saveToFilesystem")
            mimes == Calls(Parent, "saveToClipboardMime")
            pixmaps == Where(Parent, LAMBDA e :
                           e.k = "clip" /\ e.n = "QClipboard::setPixmap")
        IN /\ Cardinality(saves) =
                (IF in.saveAfterCopy /\ call.path0 # <<>> THEN 1 ELSE 0)
           /\ Cardinality(mimes) + Cardinality(pixmaps) = 1
           /\ \A i \in saves, j \in mimes \cup pixmaps : i < j
           /\ in.useJpg => \E j \in mimes : Parent[j].a = "jpeg"
           /\ (~in.useJpg /\ in.wayland) => \E j \in mimes : Parent[j].a = "png"
           /\ (~in.useJpg /\ ~in.wayland) =>
                /\ pixmaps # {}
                /\ clipboard = Clip("pixmap", call.capture)

C6_Witness ==
    /\ call.op = "saveToClipboard"
    /\ call.in.saveAfterCopy /\ call.path0 # <<>>
    /\ call.in.outcome = "writefail"
    /\ ~call.in.useJpg /\ call.in.wayland
    /\ Calls(Parent, "saveToClipboardMime") # {}

----------------------------------------------------------------------------
(* C7 *)

\* C7: saveToClipboardMime touches the clipboard (setMimeData, or the wl-copy
\* helper) only when the capture, encoded, loads back from the encoded bytes;
\* when it does not, there is exactly one error 'Error while saving to
\* clipboard', no helper process, and the clipboard is as it was.
C7_MimeOnlyWhenLoaded ==
    Calls(Parent, "saveToClipboardMime") # {} =>
        LET loads == call.in.writerOk /\ call.in.readerOk
        IN /\ loads \/ ( /\ ClipWrites(Both) = {}
                         /\ SysCalls(Both) = {}
                         /\ clipboard = call.clip0 )
           /\ ~loads =>
                /\ Cardinality(Where(Parent, LAMBDA e :
                       IsMsg(e, "error", "Error while saving to clipboard"))) = 1
                /\ pc["child"] = "none"
                /\ clipboard = call.clip0
                /\ result = "void"

C7_Witness ==
    /\ Finished("saveToClipboardMime")
    /\ call.in.writerOk /\ ~call.in.readerOk
    /\ Logs(Parent, "error") # {}

----------------------------------------------------------------------------
(* C8 *)

\* C8: after fork only the parent executes close(read end), write,
\* close(write end), waitpid and returns to the caller; the child never does,
\* also when exec of wl-copy fails.
C8_ChildNeverRunsParentSteps ==
    pc["child"] \notin {"L135", "L136", "L137", "L138", "app"}

----------------------------------------------------------------------------
(* C9 *)

\* the descriptors a successful pipe2 of this invocation returned
PipeFds ==
    UNION { {Parent[i].a[1], Parent[i].a[2]} :
              i \in Where(Parent, LAMBDA e : IsSys(e, "pipe2") /\ e.r = "ok") }

Forked == \E i \in 1..Len(Parent) : IsSys(Parent[i], "fork") /\ Parent[i].r = "ok"

\* C9: saveToClipboardWlCopy closes, duplicates or writes only descriptors a
\* successful pipe2 of the same invocation returned, and waits only for the
\* child a successful fork of the same invocation created.
C9_OnlyOwnDescriptors ==
    \A i \in 1..Len(Both) :
        LET e == Both[i]
        IN /\ (IsSys(e, "close") \/ IsSys(e, "write") \/ IsSys(e, "dup2"))
                => e.a[1] \in PipeFds
           /\ IsSys(e, "waitpid") => Forked /\ e.a[1] = ChildPid

----------------------------------------------------------------------------
(* C10 *)

Succeeded(tr, name) ==
    \E i \in 1..Len(tr) : IsSys(tr[i], name) /\ tr[i].r = "ok"

\* C10: when pipe2, fork, dup2 and exec all succeed, a helper that reads its
\* standard input to end-of-file and then ends has received exactly the
\* encoded image bytes, and the parent is not left with the write end open
\* when it waits.
C10_HelperGetsTheImage ==
    ( /\ Succeeded(Parent, "pipe2") /\ Succeeded(Parent, "fork")
      /\ Succeeded(Child, "dup2") /\ Succeeded(Child, "execlp") )
    => /\ pc["child"] \in {"exited", "reaped"} => recv = call.array
       /\ pc["parent"] = "L138" => \A f \in Fds : fds["parent"][f].obj # "pw"

====
